---- MODULE Spec2Model ----
(***************************************************************************)
(* Model of the obstacle-aware path planner (path_planner.py) and of the   *)
(* encoder-feedback motion executor (move_control.py, advanced.py and the  *)
(* route runners) of abbas-rz/codelotus.                                   *)
(*                                                                         *)
(* Planner units.  Coordinates are integers in 1/Scale cm, so that inputs  *)
(* that do not lie on the 1 cm planning grid exist.  Distances are         *)
(* compared exactly (squared, cross-multiplied) where the program compares *)
(* floating-point values; A* costs are fixed-point with CostScale units    *)
(* per cm.  The arena and the clearances are scaled down from the          *)
(* program's 118.1 x 114.3 cm and 7 / 8 cm.                                *)
(*                                                                         *)
(* Executor units.  Encoder counts are integer ticks.  One step of the     *)
(* robot advances a driven wheel by PlantQuantum ticks; the polling loop   *)
(* may run MaxTurnPolls / MaxMovePolls times before its time limit.  The   *)
(* calibration values and the configured tolerances are small integers.    *)
(***************************************************************************)
EXTENDS Integers, Sequences, FiniteSets, TLC

\* ------------------------------------------------------------------ bounds
Scale == 2
ArenaW == 6
ArenaH == 5
CostScale == 1000
MaxReds == 2
MaxObstacles == 2
MinClearance == 1
NoGoClearance == 2
\* reverse_distance (10 cm in the program), in cm of the scaled arena
ReverseDistance == 2
\* the clamp margin of the reverse point (5 cm in the program)
EdgeMargin == 1
\* the least ram distance (5 cm in the program)
MinRamDistance == 1
\* the distance the ram stops short of the corner (2 cm in the program)
CornerMargin == 1
\* session_pulses_per_degree / session_pulses_per_cm (calibration values)
PulsesPerDegree == 1
PulsesPerCm == 1
\* ticks a driven wheel advances in one physics step
PlantQuantum == 45
\* polling iterations within max_turn_time / max_move_time (200 / 600 in the
\* program), and the stall count that ends the loop (10 in the program)
MaxTurnPolls == 4
MaxMovePolls == 4
\* tolerances set through configure_tolerances
ConfiguredRotationTolerance == 5
ConfiguredDistanceTolerance == 2
StallLimit == 2
\* ticks per physics step the left wheel loses in the run with a wheel bias
MotorBias == 15

\* --------------------------------------------------------- program constants
GRID_STEP_CM == 1
rotation_tolerance == 350000000
distance_tolerance == 50000000
max_correction_attempts == 5
TurnReachTolerance == 5
MoveReachTolerance == 10
TurnStallThreshold == 2
MoveStallThreshold == 5
SplitTurnThreshold == 135
SplitFirstTurn == 90

\* ---------------------------------------------------------------- helpers
Abs(x) == IF x < 0 THEN -x ELSE x

Min2(a, b) == IF a <= b THEN a ELSE b

Max2(a, b) == IF a >= b THEN a ELSE b

Sq(x) == x * x

RECURSIVE ISqrtIter(_, _, _)
ISqrtIter(n, lo, hi) ==
    \* largest r in lo..hi with r*r <= n (lo*lo <= n < (hi+1)*(hi+1))
    IF lo >= hi THEN lo
    ELSE LET mid == (lo + hi + 1) \div 2
         IN IF mid * mid <= n THEN ISqrtIter(n, mid, hi) ELSE ISqrtIter(n, lo, mid - 1)

ISqrt(n) == ISqrtIter(n, 0, 46340)

\* math.hypot of a grid offset, in fixed-point cost units
Hypot(dx, dy) == ISqrt((dx * dx + dy * dy) * CostScale * CostScale)

\* A missing polyline (Python None)
NoPath == << >>

\* Squared Euclidean distance of two points (units 1/Scale cm)
Dist2(a, b) == Sq(a[1] - b[1]) + Sq(a[2] - b[2])

\* ------------------------------------------------------ geometry primitives
\* _distance_point_to_segment(px, py, a, b) < clear, compared exactly
PointSegmentCloserThan(p, a, b, clear) ==
    LET dx == b[1] - a[1]
        dy == b[2] - a[2]
        denom == dx * dx + dy * dy
        dot == (p[1] - a[1]) * dx + (p[2] - a[2]) * dy
        cross == (p[1] - a[1]) * dy - (p[2] - a[2]) * dx
    IN IF denom = 0 THEN Dist2(p, a) < clear * clear
       ELSE IF dot <= 0 THEN Dist2(p, a) < clear * clear
       ELSE IF dot >= denom THEN Dist2(p, b) < clear * clear
       ELSE cross * cross < clear * clear * denom

\* _segment_is_clear(a, b, obstacles): every obstacle keeps dmin >= clearance
SegmentIsClear(a, b, obstacles) ==
    \A o \in obstacles :
        ~PointSegmentCloserThan(<<o.x, o.y>>, a, b, o.clearance)

\* ------------------------------------------------------------ occupancy grid
Step == GRID_STEP_CM * Scale

gw == ArenaW \div GRID_STEP_CM + 1

gh == ArenaH \div GRID_STEP_CM + 1

Cells == (0 .. gw - 1) \X (0 .. gh - 1)

\* _build_occupancy: a cell is blocked when its centre is within the
\* clearance of some obstacle (<=, the boundary included)
Blocked(c, obstacles) ==
    \E o \in obstacles :
        Sq(c[1] * Step - o.x) + Sq(c[2] * Step - o.y) <= o.clearance * o.clearance

InBounds(c) == c[1] >= 0 /\ c[1] < gw /\ c[2] >= 0 /\ c[2] < gh

\* int(round(v / step)): Python rounds a tie to the even neighbour
RoundDiv(v, d) ==
    LET q == v \div d
        r == v % d
    IN IF 2 * r < d THEN q
       ELSE IF 2 * r > d THEN q + 1
       ELSE IF q % 2 = 0 THEN q ELSE q + 1

pt_to_grid(p) == <<RoundDiv(p[1], Step), RoundDiv(p[2], Step)>>

grid_to_pt(g) == <<g[1] * Step, g[2] * Step>>

Neighbors8(c) ==
    {<<c[1] + dx, c[2] + dy>> : dx \in {-1, 0, 1}, dy \in {-1, 0, 1}} \ {c}

\* ------------------------------------------------------------------ A* search
NoCell == <<-1, -1>>

\* heapq order of the entries (f, (gx, gy)): by f, then by gx, then by gy
HeapLess(e1, e2) ==
    \/ e1[1] < e2[1]
    \/ e1[1] = e2[1] /\ e1[2] < e2[2]
    \/ e1[1] = e2[1] /\ e1[2] = e2[2] /\ e1[3] < e2[3]

HeapMin(open) == CHOOSE e \in open : \A e2 \in open : e2 = e \/ HeapLess(e, e2)

\* a variant that lets a diagonal move pass a blocked corner
PassableCuttingCorners(cur, nb, occ) == InBounds(nb) /\ ~occ[nb]

\* the moves _astar allows out of cur: in bounds, unblocked, and a diagonal
\* move only when both orthogonal neighbours are free
Passable(cur, nb, occ) ==
    /\ InBounds(nb)
    /\ ~occ[nb]
    /\ (nb[1] # cur[1] /\ nb[2] # cur[2]) => (~occ[<<nb[1], cur[2]>>] /\ ~occ[<<cur[1], nb[2]>>])

StepCost(cur, nb) == Hypot(nb[1] - cur[1], nb[2] - cur[2]) * GRID_STEP_CM

\* _heuristic(grid_to_pt(nb), grid_to_pt(goal)): Euclidean distance in cm
Heuristic(nb, goal) == Hypot(nb[1] - goal[1], nb[2] - goal[2]) * GRID_STEP_CM

RECURSIVE Reconstruct(_, _)
Reconstruct(came, c) ==
    IF c = NoCell THEN << >>
    ELSE Append(Reconstruct(came, came[c]), grid_to_pt(c))

\* a variant that only steps to neighbours nearer to the goal
RECURSIVE AStarLoopGreedy(_, _, _, _, _)
AStarLoopGreedy(open, came, gscore, goal, occ) ==
    IF open = {} THEN NoPath
    ELSE LET e == HeapMin(open)
             cur == <<e[2], e[3]>>
         IN IF cur = goal THEN Reconstruct(came, cur)
            ELSE LET tentative(nb) == gscore[cur] + StepCost(cur, nb)
                     better == {nb \in Neighbors8(cur) :
                                   /\ Passable(cur, nb, occ)
                                   /\ Heuristic(nb, goal) < Heuristic(cur, goal)
                                   /\ (nb \in DOMAIN gscore => tentative(nb) < gscore[nb])}
                     came2 == [n \in better |-> cur] @@ came
                     gscore2 == [n \in better |-> tentative(n)] @@ gscore
                     pushed == {<<tentative(nb) + Heuristic(nb, goal), nb[1], nb[2]>> : nb \in better}
                 IN AStarLoopGreedy((open \ {e}) \cup pushed, came2, gscore2, goal, occ)

RECURSIVE AStarLoop(_, _, _, _, _)
AStarLoop(open, came, gscore, goal, occ) ==
    IF open = {} THEN NoPath
    ELSE LET e == HeapMin(open)
             cur == <<e[2], e[3]>>
         IN IF cur = goal THEN Reconstruct(came, cur)
            ELSE LET tentative(nb) == gscore[cur] + StepCost(cur, nb)
                     better == {nb \in Neighbors8(cur) :
                                   /\ Passable(cur, nb, occ)
                                   /\ (nb \in DOMAIN gscore => tentative(nb) < gscore[nb])}
                     came2 == [n \in better |-> cur] @@ came
                     gscore2 == [n \in better |-> tentative(n)] @@ gscore
                     pushed == {<<tentative(nb) + Heuristic(nb, goal), nb[1], nb[2]>> : nb \in better}
                 IN AStarLoop((open \ {e}) \cup pushed, came2, gscore2, goal, occ)

\* a variant that searches although the start or the goal cell is blocked
AStarUnchecked(start_cm, goal_cm, obstacles) ==
    LET start_g == pt_to_grid(start_cm)
        goal_g == pt_to_grid(goal_cm)
        occ == [c \in Cells |-> Blocked(c, obstacles)]
    IN IF ~InBounds(start_g) \/ ~InBounds(goal_g) THEN NoPath
       ELSE AStarLoop({<<0, start_g[1], start_g[2]>>},
                      start_g :> NoCell,
                      start_g :> 0,
                      goal_g, occ)

\* _astar(start_cm, goal_cm, obstacles): a grid polyline, or NoPath
AStar(start_cm, goal_cm, obstacles) ==
    LET start_g == pt_to_grid(start_cm)
        goal_g == pt_to_grid(goal_cm)
        occ == [c \in Cells |-> Blocked(c, obstacles)]
    IN IF ~InBounds(start_g) \/ ~InBounds(goal_g) THEN NoPath
       ELSE IF occ[start_g] \/ occ[goal_g] THEN NoPath
       ELSE AStarLoop({<<0, start_g[1], start_g[2]>>},
                      start_g :> NoCell,
                      start_g :> 0,
                      goal_g, occ)

\* ------------------------------------------------------------ path compressor
RECURSIVE FarthestClear(_, _, _, _)
FarthestClear(path_cm, i, j, obstacles) ==
    \* while j > i + 1 and not _segment_is_clear(path[i], path[j]): j -= 1
    IF j > i + 1 /\ ~SegmentIsClear(path_cm[i], path_cm[j], obstacles)
    THEN FarthestClear(path_cm, i, j - 1, obstacles)
    ELSE j

RECURSIVE SmoothFrom(_, _, _, _)
SmoothFrom(path_cm, i, smoothed, obstacles) ==
    IF i >= Len(path_cm) THEN smoothed
    ELSE LET j == FarthestClear(path_cm, i, Len(path_cm), obstacles)
         IN SmoothFrom(path_cm, j, Append(smoothed, path_cm[j]), obstacles)

\* _smooth_polyline(path_cm, obstacles)
SmoothPolyline(path_cm, obstacles) ==
    IF Len(path_cm) <= 2 THEN path_cm
    ELSE SmoothFrom(path_cm, 1, <<path_cm[1]>>, obstacles)

\* ------------------------------------------------------------ segment planner
\* a variant that degrades to the direct segment by itself (what the code does not do)
PlanSegmentDegrading(a, b, obstacles) ==
    IF SegmentIsClear(a, b, obstacles) THEN <<a, b>>
    ELSE LET path == AStar(a, b, obstacles)
         IN IF path = NoPath THEN <<a, b>>
            ELSE LET sm == SmoothPolyline(path, obstacles)
                 IN [k \in 1 .. Len(sm) |->
                        IF k = Len(sm) THEN b ELSE IF k = 1 THEN a ELSE sm[k]]

\* _plan_segment_with_clearance(a, b, obstacles)
PlanSegmentWithClearance(a, b, obstacles) ==
    IF SegmentIsClear(a, b, obstacles) THEN <<a, b>>
    ELSE LET path == AStar(a, b, obstacles)
         IN IF path = NoPath THEN NoPath
            ELSE LET sm == SmoothPolyline(path, obstacles)
                 IN [k \in 1 .. Len(sm) |->
                        \* path[0] = a, then path[-1] = b
                        IF k = Len(sm) THEN b ELSE IF k = 1 THEN a ELSE sm[k]]

\* _polyline_length(path), fixed-point, CostScale units per cm
RECURSIVE PolylineLength(_)
PolylineLength(path) ==
    IF Len(path) < 2 THEN 0
    ELSE ISqrt((Dist2(path[1], path[2]) * CostScale * CostScale) \div (Scale * Scale))
         + PolylineLength(Tail(path))

\* ------------------------------------------------------- headings
\* sin(k degrees) for k = 0 .. 90 in units of 1/10000: the values math.sin
\* gives, rounded; headings are carried in whole degrees
SinTable ==
    <<0, 175, 349, 523, 698, 872, 1045, 1219, 1392, 1564, 1736, 1908, 2079, 2250,
      2419, 2588, 2756, 2924, 3090, 3256, 3420, 3584, 3746, 3907, 4067, 4226,
      4384, 4540, 4695, 4848, 5000, 5150, 5299, 5446, 5592, 5736, 5878, 6018,
      6157, 6293, 6428, 6561, 6691, 6820, 6947, 7071, 7193, 7314, 7431, 7547,
      7660, 7771, 7880, 7986, 8090, 8192, 8290, 8387, 8480, 8572, 8660, 8746,
      8829, 8910, 8988, 9063, 9135, 9205, 9272, 9336, 9397, 9455, 9511, 9563,
      9613, 9659, 9703, 9744, 9781, 9816, 9848, 9877, 9903, 9925, 9945, 9962,
      9976, 9986, 9994, 9998, 10000>>

\* math.sin(math.radians(d)) for a whole number of degrees
SinDeg(d) ==
    LET m == d % 360
    IN IF m <= 90 THEN SinTable[m + 1]
       ELSE IF m <= 180 THEN SinTable[180 - m + 1]
       ELSE IF m <= 270 THEN -SinTable[m - 180 + 1]
       ELSE -SinTable[360 - m + 1]

\* math.cos(math.radians(d))
CosDeg(d) == SinDeg(d + 90)

TrigUnit == SinDeg(90)

\* the angle of (a, b), 0 <= b <= a, a > 0, to the nearest degree (0 .. 45):
\* the number of whole degrees k that the angle lies more than k - 1/2 beyond
OctantDeg(a, b) ==
    Cardinality({k \in 1 .. 45 :
        (a * SinDeg(k) - b * CosDeg(k)) + (a * SinDeg(k - 1) - b * CosDeg(k - 1)) < 0})

\* the angle of (x, y), x >= 0, y >= 0, not both zero (0 .. 90)
QuadrantDeg(x, y) == IF y <= x THEN OctantDeg(x, y) ELSE 90 - OctantDeg(y, x)

\* math.degrees(math.atan2(y, x)), in -179 .. 180; atan2(0.0, -0.0), which is
\* what a zero-length segment passes, is pi
Atan2Deg(y, x) ==
    IF x = 0 /\ y = 0 THEN 180
    ELSE IF y >= 0 /\ x >= 0 THEN QuadrantDeg(x, y)
    ELSE IF y >= 0 THEN 180 - QuadrantDeg(-x, y)
    ELSE IF x < 0 THEN QuadrantDeg(-x, -y) - 180
    ELSE -QuadrantDeg(x, -y)

\* abs_heading = math.degrees(math.atan2(dx, -dy)) % 360.0 (0 = up, 90 = right)
AbsHeading(dx, dy) == Atan2Deg(dx, -dy) % 360

\* a variant that normalises into (-180, 180]
RelTurnUpperClosed(abs_heading, heading_deg) ==
    180 - ((heading_deg - abs_heading + 540) % 360)

\* rel_turn = (abs_heading - heading_deg + 540.0) % 360.0 - 180.0
RelTurn(abs_heading, heading_deg) == ((abs_heading - heading_deg + 540) % 360) - 180

\* ------------------------------------------------------- planner inputs
\* Points are <<x, y>> in 1/Scale cm; odd coordinates lie off the grid.
StartSet == {<<2, 2>>, <<1, 9>>}

EndSet == {<<2, 8>>}

TargetSet == {<<10, 2>>, <<6, 6>>, <<11, 7>>}

\* _make_point_obstacle(x, y, clearance): fruits carry MIN_CLEARANCE_CM,
\* no-go points the no-go clearance
ObstacleSet ==
    {[x |-> p[1], y |-> p[2], clearance |-> MinClearance * Scale] :
        p \in {<<6, 2>>, <<6, 5>>, <<9, 7>>, <<5, 8>>}}
    \cup {[x |-> p[1], y |-> p[2], clearance |-> NoGoClearance * Scale] :
        p \in {<<6, 4>>, <<10, 8>>}}

RedLists ==
    {r \in UNION {[1 .. n -> TargetSet] : n \in 1 .. MaxReds} :
        \A i, j \in DOMAIN r : i # j => r[i] # r[j]}

ObstacleSets == {S \in SUBSET ObstacleSet : Cardinality(S) <= MaxObstacles}

NoDest == << >>

\* final_dest_xy (set, or absent from the configuration) and the flag, which
\* defaults to True
ExtendedOptions ==
    {[final_dest_xy |-> NoDest, enable_corner_recalibration |-> TRUE],
     [final_dest_xy |-> <<10, 5>>, enable_corner_recalibration |-> TRUE],
     [final_dest_xy |-> <<10, 5>>, enable_corner_recalibration |-> FALSE]}

\* ------------------------------------------------------- planner state
VARIABLES
    start_xy,      \* build_auto_path argument
    end_xy,        \* build_auto_path argument
    reds,          \* the mandatory targets, in file order
    obstacles,     \* the obstacle list built from blacks, greens and no-go zones
    remaining,     \* router: targets not yet chosen
    order,         \* router: waypoints appended so far
    cur,           \* router: current position
    chosen,        \* router: the target chosen by the last iteration
    poly,          \* router: the polyline of the last iteration (NoPath: None)
    scoredEmpty,   \* router: whether the last iteration found no routable target
    checkpoints,   \* the waypoint chain
    final_dest_xy, \* build_auto_path argument (NoDest: None)
    enable_corner_recalibration,   \* build_auto_path argument
    reverse_checkpoint_idx,        \* where the reverse starts (0: None)
    segs,          \* the commands built from the chain
    ppc            \* position in build_auto_path

planVars == <<start_xy, end_xy, reds, obstacles, remaining, order, cur, chosen,
              poly, scoredEmpty, checkpoints, final_dest_xy,
              enable_corner_recalibration, reverse_checkpoint_idx, segs, ppc>>

\* ------------------------------------------------------ executor state
VARIABLES
    caller,        \* the program that drives the controller
    route,         \* its command list: (rotation in degrees, movement in cm)
    tight,         \* whether configure_tolerances replaced the default tolerances
    motor_bias,    \* ticks per physics step the left wheel falls short (motor_factor_left)
    idx,           \* index of the command being executed
    rpc,           \* position in the route loop and in execute_command
    success,       \* execute_command: success
    stack,         \* the active turn_to_angle / move_distance calls, innermost last
    ret,           \* result of the call that returned last, until it is consumed
    start_left,    \* RobotController.start_left
    start_right,   \* RobotController.start_right
    enable_error_correction,  \* RobotController.enable_error_correction
    rd,            \* get_encoder_position in progress
    latest_encoders,  \* advanced.latest_encoders (m1, m2)
    dataFresh,     \* is_encoder_data_available()
    telemLive,     \* encoder packets still arrive
    plant,         \* wheel counts and move-by-ticks state of the robot
    hist           \* what an observer of the run has seen so far

execVars == <<caller, route, tight, motor_bias, idx, rpc, success, stack, ret, start_left,
              start_right, enable_error_correction, rd, latest_encoders,
              dataFresh, telemLive, plant, hist>>

IdleRead == [phase |-> "idle", left |-> 0, seen |-> {}]

\* the pose robot.reset(x, y, heading) gives; x_cm and y_cm count
\* 1/(2 * PulsesPerCm * TrigUnit) cm, heading_deg counts 1/(2 * PulsesPerDegree)
\* degree, so that one encoder tick of one wheel is a whole number of each
ResetPose == [x_cm |-> 0, y_cm |-> 0, heading_deg |-> 0]

\* VirtualRobot state with no move-by-ticks request
RestingPlant(l, r) ==
    [left_encoder |-> l, right_encoder |-> r, move_active |-> FALSE,
     move_target_left |-> 0, move_target_right |-> 0,
     move_start_left |-> 0, move_start_right |-> 0,
     move_speed_left |-> 0, move_speed_right |-> 0,
     x_cm |-> ResetPose.x_cm, y_cm |-> ResetPose.y_cm, heading_deg |-> ResetPose.heading_deg]

NoHistory ==
    [lastCmd |-> "none", reqCmd |-> 0, reqKind |-> "none", doneCmd |-> 0,
     turnState |-> "none", moved |-> {}, exhausted |-> 0, intr |-> "none",
     staleResult |-> "none", staleReq |-> FALSE, readOk |-> TRUE,
     outerRef |-> [m1 |-> 0, m2 |-> 0], clean |-> TRUE, cmdPose |-> ResetPose,
     seen2 |-> 0, quiet |-> 0, idle |-> TRUE, loopExit |-> "none"]

\* the executor before any program drives it
ExecutorIdle ==
    /\ caller = "none"
    /\ route = << >>
    /\ tight = FALSE
    /\ motor_bias = 0
    /\ idx = 0
    /\ rpc = "off"
    /\ success = TRUE
    /\ stack = << >>
    /\ ret = "none"
    /\ start_left = 0
    /\ start_right = 0
    /\ enable_error_correction = TRUE
    /\ rd = IdleRead
    /\ latest_encoders = [m1 |-> 0, m2 |-> 0]
    /\ dataFresh = TRUE
    /\ telemLive = TRUE
    /\ plant = RestingPlant(0, 0)
    /\ hist = NoHistory

\* the planner when only the executor runs
PlannerIdle ==
    /\ start_xy = <<0, 0>>
    /\ end_xy = <<0, 0>>
    /\ reds = << >>
    /\ obstacles = {}
    /\ remaining = << >>
    /\ order = << >>
    /\ cur = <<0, 0>>
    /\ chosen = <<0, 0>>
    /\ poly = NoPath
    /\ scoredEmpty = FALSE
    /\ checkpoints = << >>
    /\ final_dest_xy = NoDest
    /\ enable_corner_recalibration = FALSE
    /\ reverse_checkpoint_idx = 0
    /\ segs = << >>
    /\ ppc = "off"

RECURSIVE RemoveFirst(_, _)
RemoveFirst(seq, v) ==
    IF seq = << >> THEN << >>
    ELSE IF Head(seq) = v THEN Tail(seq)
    ELSE <<Head(seq)>> \o RemoveFirst(Tail(seq), v)

\* min(remaining, key=lambda r: _dist(cur, r)): the first of the nearest
NearestFirst(c, rem) ==
    rem[CHOOSE i \in DOMAIN rem :
            /\ \A j \in DOMAIN rem : Dist2(c, rem[i]) <= Dist2(c, rem[j])
            /\ \A j \in 1 .. i - 1 : Dist2(c, rem[j]) > Dist2(c, rem[i])]

\* a variant that appends every waypoint, equal to the last one or not
AppendEvery(chain, wps) == chain \o wps

\* for wp in poly[1:]: if wp != checkpoints[-1]: checkpoints.append(wp)
RECURSIVE AppendDistinct(_, _)
AppendDistinct(chain, wps) ==
    IF wps = << >> THEN chain
    ELSE IF Head(wps) # chain[Len(chain)]
         THEN AppendDistinct(Append(chain, Head(wps)), Tail(wps))
         ELSE AppendDistinct(chain, Tail(wps))

InitPlanner ==
    /\ start_xy \in StartSet
    /\ end_xy \in EndSet
    /\ reds \in RedLists
    /\ obstacles \in ObstacleSets
    /\ remaining = reds
    /\ order = << >>
    /\ cur = start_xy
    /\ chosen = start_xy
    /\ poly = NoPath
    /\ scoredEmpty = FALSE
    /\ checkpoints = << >>
    /\ \E opt \in ExtendedOptions :
          /\ final_dest_xy = opt.final_dest_xy
          /\ enable_corner_recalibration = opt.enable_corner_recalibration
    /\ reverse_checkpoint_idx = 0
    /\ segs = << >>
    /\ ppc = "route"
    /\ ExecutorIdle

\* the fallback branch of the router loop: poly for the Euclidean-nearest
FallbackPoly(c, target, obs) ==
    IF SegmentIsClear(c, target, obs) THEN <<c, target>>
    ELSE PlanSegmentWithClearance(c, target, obs)

\* a variant that takes the routable target nearest in a straight line
RouterChoiceByDistance(c, rem, obs) ==
    LET plans == [i \in DOMAIN rem |-> PlanSegmentWithClearance(c, rem[i], obs)] @@ << >>
        scored == {i \in DOMAIN rem : plans[i] # NoPath}
        best == CHOOSE i \in scored :
                    /\ \A j \in scored : Dist2(c, rem[i]) <= Dist2(c, rem[j])
                    /\ \A j \in scored : j < i => Dist2(c, rem[j]) > Dist2(c, rem[i])
        nearest == NearestFirst(c, rem)
    IN IF scored = {}
       THEN [chosen |-> nearest, poly |-> FallbackPoly(c, nearest, obs), scoredEmpty |-> TRUE]
       ELSE [chosen |-> rem[best], poly |-> plans[best], scoredEmpty |-> FALSE]

\* the choice made by one iteration of the router loop: the scored list,
\* its stable sort by routed length, and the fallback when it is empty
RouterChoice(c, rem, obs) ==
    LET plans == [i \in DOMAIN rem |-> PlanSegmentWithClearance(c, rem[i], obs)] @@ << >>
        lens == [i \in DOMAIN rem |-> PolylineLength(plans[i])] @@ << >>
        scored == {i \in DOMAIN rem : plans[i] # NoPath}
        best == CHOOSE i \in scored :
                    /\ \A j \in scored : lens[i] <= lens[j]
                    /\ \A j \in scored : j < i => lens[j] > lens[i]
        nearest == NearestFirst(c, rem)
    IN IF scored = {}
       THEN [chosen |-> nearest, poly |-> FallbackPoly(c, nearest, obs), scoredEmpty |-> TRUE]
       ELSE [chosen |-> rem[best], poly |-> plans[best], scoredEmpty |-> FALSE]

\* one iteration of `while remaining:` in build_auto_path
RouterIteration ==
    /\ ppc = "route"
    /\ remaining # << >>
    /\ \E r \in {RouterChoice(cur, remaining, obstacles)} :
          /\ chosen' = r.chosen
          /\ poly' = r.poly
          /\ scoredEmpty' = r.scoredEmpty
          /\ order' = IF Len(r.poly) > 1 THEN order \o Tail(r.poly) ELSE order
          /\ remaining' = RemoveFirst(remaining, r.chosen)
          /\ cur' = r.chosen
    /\ UNCHANGED <<start_xy, end_xy, reds, obstacles, checkpoints, ppc, final_dest_xy,
                   enable_corner_recalibration, reverse_checkpoint_idx, segs, execVars>>

\* tail = _plan_segment_with_clearance(cur, end_xy); [cur, end_xy] when None
TailPoly(c, e, obs) ==
    LET t == PlanSegmentWithClearance(c, e, obs)
    IN IF t = NoPath THEN <<c, e>> ELSE t

\* after the loop: the hop to end_xy and the assembly of checkpoints
RouteTail ==
    /\ ppc = "route"
    /\ remaining = << >>
    /\ \E tail \in {TailPoly(cur, end_xy, obstacles)} :
          checkpoints' = AppendDistinct(AppendDistinct(<<start_xy>>, order), Tail(tail))
    /\ ppc' = "routed"
    /\ UNCHANGED <<start_xy, end_xy, reds, obstacles, remaining, order, cur, chosen,
                   poly, scoredEmpty, final_dest_xy, enable_corner_recalibration,
                   reverse_checkpoint_idx, segs, execVars>>

\* reverse_x = ex - (dx / heading_len) * reverse_distance, then the clamp to
\* the arena less its edge margin; the point is kept on the 1/Scale lattice
ReversePoint(prev, e) ==
    LET dx == e[1] - prev[1]
        dy == e[2] - prev[2]
        heading_len == Hypot(dx, dy)
        reverse_x == e[1] - RoundDiv(dx * ReverseDistance * Scale * CostScale, heading_len)
        reverse_y == e[2] - RoundDiv(dy * ReverseDistance * Scale * CostScale, heading_len)
    IN <<Max2(EdgeMargin * Scale, Min2((ArenaW - EdgeMargin) * Scale, reverse_x)),
         Max2(EdgeMargin * Scale, Min2((ArenaH - EdgeMargin) * Scale, reverse_y))>>

\* Step 1a: the reverse from the end point; idx 0 stands for None
ReverseStep(chain, obs) ==
    LET last == chain[Len(chain)]
        prev == chain[Len(chain) - 1]
        reverse_path == PlanSegmentWithClearance(last, ReversePoint(prev, last), obs)
    IN IF Len(chain) >= 2 /\ 10 * Hypot(last[1] - prev[1], last[2] - prev[2]) > Scale * CostScale
          /\ reverse_path # NoPath
       THEN [chain |-> AppendDistinct(chain, Tail(reverse_path)), idx |-> Len(chain)]
       ELSE [chain |-> chain, idx |-> 0]

\* ram_point: toward the bottom-left corner (0, ARENA_HEIGHT_CM), stopping
\* the corner margin short of it but going at least the minimum ram distance
RamPoint(c) ==
    LET dx_to_corner == 0 - c[1]
        dy_to_corner == ArenaH * Scale - c[2]
        dist_to_corner == Hypot(dx_to_corner, dy_to_corner)
        ram_distance == Max2(MinRamDistance * Scale * CostScale,
                             dist_to_corner - CornerMargin * Scale * CostScale)
    IN <<c[1] + RoundDiv(dx_to_corner * ram_distance, dist_to_corner),
         c[2] + RoundDiv(dy_to_corner * ram_distance, dist_to_corner)>>

\* Step 1b: the ram into the bottom-left corner
RamStep(chain, obs) ==
    LET current_pos == chain[Len(chain)]
        ram_path == PlanSegmentWithClearance(current_pos, RamPoint(current_pos), obs)
    IN IF 10 * Hypot(0 - current_pos[1], ArenaH * Scale - current_pos[2]) > Scale * CostScale
          /\ ram_path # NoPath
       THEN AppendDistinct(chain, Tail(ram_path))
       ELSE chain

\* the secondary targets: the fruit obstacles at these positions are black,
\* the other fruit obstacles are green
BlackPoints == {<<6, 2>>, <<5, 8>>}

RECURSIVE SetToSeq(_)
SetToSeq(S) ==
    IF S = {} THEN << >>
    ELSE LET p == CHOOSE q \in S : \A r \in S : q[1] < r[1] \/ (q[1] = r[1] /\ q[2] <= r[2])
         IN <<p>> \o SetToSeq(S \ {p})

\* blacks, in file order
Blacks(obs) ==
    SetToSeq({<<o.x, o.y>> : o \in {b \in obs : b.clearance = MinClearance * Scale
                                                /\ <<b.x, b.y>> \in BlackPoints}})

\* black_obstacles: the reds, the greens and the no-go zones
BlackObstacles(redList, obs) ==
    {[x |-> redList[k][1], y |-> redList[k][2], clearance |-> MinClearance * Scale] :
        k \in DOMAIN redList}
    \cup {o \in obs : ~(o.clearance = MinClearance * Scale /\ <<o.x, o.y>> \in BlackPoints)}

\* Step 2: `while remaining_blacks:` nearest first, unreachable ones skipped
RECURSIVE BlackRoute(_, _, _, _)
BlackRoute(chain, cur_pos, remaining_blacks, bobs) ==
    IF remaining_blacks = << >> THEN chain
    ELSE LET nearest_black == NearestFirst(cur_pos, remaining_blacks)
             black_path == PlanSegmentWithClearance(cur_pos, nearest_black, bobs)
             rest == RemoveFirst(remaining_blacks, nearest_black)
         IN IF black_path = NoPath
            THEN BlackRoute(chain, cur_pos, rest, bobs)
            ELSE BlackRoute(AppendDistinct(chain, Tail(black_path)), nearest_black, rest, bobs)

\* Step 3: the hop to the final destination, dropped when it cannot be planned
FinalStep(chain, dest, bobs) ==
    LET final_path == PlanSegmentWithClearance(chain[Len(chain)], dest, bobs)
    IN IF final_path = NoPath THEN chain ELSE AppendDistinct(chain, Tail(final_path))

\* the enhanced path of build_auto_path: corner recalibration (reverse and
\* ram), black fruits, final destination
ExtendedPhase ==
    /\ ppc = "routed"
    /\ \E rev \in {IF enable_corner_recalibration /\ final_dest_xy # NoDest
                    THEN ReverseStep(checkpoints, obstacles)
                    ELSE [chain |-> checkpoints, idx |-> 0]} :
       \E rammed \in {IF enable_corner_recalibration /\ final_dest_xy # NoDest
                       THEN RamStep(rev.chain, obstacles)
                       ELSE rev.chain} :
       \E bobs \in {BlackObstacles(reds, obstacles)} :
       \E collected \in {IF final_dest_xy # NoDest
                          THEN BlackRoute(rammed, rammed[Len(rammed)], Blacks(obstacles), bobs)
                          ELSE rammed} :
          /\ reverse_checkpoint_idx' = rev.idx
          /\ checkpoints' = IF final_dest_xy # NoDest
                            THEN FinalStep(collected, final_dest_xy, bobs)
                            ELSE collected
    /\ ppc' = "extended"
    /\ UNCHANGED <<start_xy, end_xy, reds, obstacles, remaining, order, cur, chosen,
                   poly, scoredEmpty, final_dest_xy, enable_corner_recalibration, segs, execVars>>

\* the loop `for i in range(1, len(checkpoints))` from its i-th pass on;
\* i counts as in the source, distances are in 1/(Scale * CostScale) cm
RECURSIVE ConvertFrom(_, _, _, _, _)
ConvertFrom(chain, i, heading_deg, ridx, out) ==
    IF i > Len(chain) - 1 THEN out
    ELSE LET dx == chain[i + 1][1] - chain[i][1]
             dy == chain[i + 1][2] - chain[i][2]
             abs_heading == AbsHeading(dx, dy)
             rel_turn == RelTurn(abs_heading, heading_deg)
             seg_dist == Hypot(dx, dy)
             seg == IF ridx # 0 /\ i = ridx
                    THEN [turn |-> 0, dist |-> -seg_dist]
                    ELSE [turn |-> rel_turn, dist |-> seg_dist]
         IN ConvertFrom(chain, i + 1, abs_heading, ridx, Append(out, seg))

\* "Build path relative turns": the robot starts facing up
ConvertSegments ==
    /\ ppc = "extended"
    /\ segs' = ConvertFrom(checkpoints, 1, 0, reverse_checkpoint_idx, << >>)
    /\ ppc' = "converted"
    /\ UNCHANGED <<start_xy, end_xy, reds, obstacles, remaining, order, cur, chosen,
                   poly, scoredEmpty, checkpoints, final_dest_xy,
                   enable_corner_recalibration, reverse_checkpoint_idx, execVars>>

NextPlanner == RouterIteration \/ RouteTail \/ ExtendedPhase \/ ConvertSegments

vars == <<planVars, execVars>>

SpecPlanner == InitPlanner /\ [][NextPlanner]_vars

\* ------------------------------------------- grid search and path compressor
\* the points handed to _astar: grid points, points off the grid (odd
\* coordinates), the far corner of the arena and a point beyond its right edge
SearchPoints ==
    {<<0, 0>>, <<2, 2>>, <<4, 4>>, <<1, 1>>, <<3, 3>>, <<2, 8>>, <<10, 2>>,
     <<ArenaW * Scale, ArenaH * Scale>>, <<(ArenaW + 1) * Scale, Scale>>}

\* an obstacle whose clearance is below the grid step: it lies between grid
\* points without blocking any
SmallObstacle == [x |-> 1, y |-> 1, clearance |-> 1]

SearchObstacleSets ==
    {S \in SUBSET (ObstacleSet \cup {SmallObstacle}) : Cardinality(S) <= MaxObstacles}

\* a call _astar(start_xy, end_xy, obstacles) is about to be made; poly will
\* hold its result and checkpoints the compressed polyline
InitSearch ==
    /\ start_xy \in SearchPoints
    /\ end_xy \in SearchPoints
    /\ reds = << >>
    /\ obstacles \in SearchObstacleSets
    /\ remaining = << >>
    /\ order = << >>
    /\ cur = start_xy
    /\ chosen = end_xy
    /\ poly = NoPath
    /\ scoredEmpty = FALSE
    /\ checkpoints = << >>
    /\ final_dest_xy = NoDest
    /\ enable_corner_recalibration = FALSE
    /\ reverse_checkpoint_idx = 0
    /\ segs = << >>
    /\ ppc = "search"
    /\ ExecutorIdle

\* path = _astar(a, b, obstacles, GRID_STEP_CM)
GridSearch ==
    /\ ppc = "search"
    /\ poly' = AStar(start_xy, end_xy, obstacles)
    /\ ppc' = "searched"
    /\ UNCHANGED <<start_xy, end_xy, reds, obstacles, remaining, order, cur, chosen,
                   scoredEmpty, checkpoints, final_dest_xy, enable_corner_recalibration,
                   reverse_checkpoint_idx, segs, execVars>>

\* path = _smooth_polyline(path, obstacles), when the search returned a path
Compress ==
    /\ ppc = "searched"
    /\ poly # NoPath
    /\ checkpoints' = SmoothPolyline(poly, obstacles)
    /\ ppc' = "smoothed"
    /\ UNCHANGED <<start_xy, end_xy, reds, obstacles, remaining, order, cur, chosen,
                   poly, scoredEmpty, final_dest_xy, enable_corner_recalibration,
                   reverse_checkpoint_idx, segs, execVars>>

NextSearch == GridSearch \/ Compress

SpecSearch == InitSearch /\ [][NextSearch]_vars

\* ------------------------------------------------------- planner claims

\* C1: once routing has finished, every mandatory target is a waypoint of the
\* chain, exactly once - also a target no clearance-respecting route reaches.
C1_EveryTargetVisitedOnce ==
    ppc = "routed" =>
        \A i \in DOMAIN reds :
            Cardinality({k \in DOMAIN checkpoints : checkpoints[k] = reds[i]}) = 1

\* the permitted-move closure of a set of cells (independent of the search order)
RECURSIVE ReachableFrom(_, _, _)
ReachableFrom(visited, frontier, occ) ==
    IF frontier = {} THEN visited
    ELSE LET next == {nb \in UNION {Neighbors8(c) : c \in frontier} \ visited :
                         \E c \in frontier : nb \in Neighbors8(c) /\ Passable(c, nb, occ)}
         IN ReachableFrom(visited \cup next, next, occ)

\* the grid search has no route: an end cell outside the grid or blocked, or
\* the goal cell cut off from the start cell
GridInfeasible(a, b, obs) ==
    LET occ == [c \in Cells |-> Blocked(c, obs)] @@ << >>
        sg == pt_to_grid(a)
        gg == pt_to_grid(b)
    IN \/ ~InBounds(sg) \/ ~InBounds(gg)
       \/ occ[sg] \/ occ[gg]
       \/ gg \notin ReachableFrom({sg}, {sg}, occ)

\* the segment-planner calls open to the router in the current state
PlannerCalls ==
    {<<cur, remaining[i]>> : i \in DOMAIN remaining} \cup {<<cur, end_xy>>}

C3_FallbackAppendsDirectSegment ==
    scoredEmpty =>
        /\ Len(poly) = 2
        /\ poly[2] = chosen
        /\ order # << >>
        /\ order[Len(order)] = chosen

\* C4: every segment of a polyline the segment planner returned keeps each
\* obstacle's clearance.
C4_PlannedSegmentsKeepClearance ==
    poly # NoPath =>
        \A k \in 1 .. Len(poly) - 1 : SegmentIsClear(poly[k], poly[k + 1], obstacles)

\* ------------------------------------------------ router and converter claims
Range(seq) == {seq[k] : k \in DOMAIN seq}

\* the last router iteration found a routable target
ScoredIteration == poly # NoPath /\ ~scoredEmpty /\ order # << >>

\* C14: after a router iteration with a routable target, the polyline kept
\* is the one planned from the position before to the chosen target, no
\* routable target left over has a shorter routed polyline, and exactly the
\* polyline's waypoints after the first were appended to the order.
C14_ChoosesSmallestRoutedLength ==
    ScoredIteration =>
        /\ poly = PlanSegmentWithClearance(poly[1], chosen, obstacles)
        /\ \A r \in Range(remaining) :
              LET other == PlanSegmentWithClearance(poly[1], r, obstacles)
              IN other = NoPath \/ PolylineLength(poly) <= PolylineLength(other)
        /\ Len(order) >= Len(poly) - 1
        /\ SubSeq(order, Len(order) - Len(poly) + 2, Len(order)) = Tail(poly)

\* C14 witness: the chosen target is routed around an obstacle and is farther
\* in a straight line than a routable target that was left over
C14_Witness ==
    /\ ScoredIteration
    /\ \E r \in Range(remaining) :
          /\ PlanSegmentWithClearance(poly[1], r, obstacles) # NoPath
          /\ Dist2(poly[1], r) < Dist2(poly[1], chosen)

\* the heading after replaying the first k commands from heading 0
RECURSIVE ReplayHeading(_, _)
ReplayHeading(cmds, k) ==
    IF k = 0 THEN 0 ELSE (ReplayHeading(cmds, k - 1) + cmds[k].turn) % 360

\* the position after replaying the first k commands from (x0, y0): each one
\* turns by its turn and then advances its distance along the heading (0 is
\* up, the direction of decreasing y), backward when the distance is
\* negative; positions are in 1/(Scale * CostScale) cm
RECURSIVE ReplayX(_, _, _)
ReplayX(x0, cmds, k) ==
    IF k = 0 THEN x0 * CostScale
    ELSE ReplayX(x0, cmds, k - 1)
         + RoundDiv(cmds[k].dist * SinDeg(ReplayHeading(cmds, k)), TrigUnit)

RECURSIVE ReplayY(_, _, _)
ReplayY(y0, cmds, k) ==
    IF k = 0 THEN y0 * CostScale
    ELSE ReplayY(y0, cmds, k - 1)
         - RoundDiv(cmds[k].dist * CosDeg(ReplayHeading(cmds, k)), TrigUnit)

\* what the whole-degree headings and the fixed-point distances may lose
\* over a chain: half a lattice step
ReplayTolerance == CostScale \div 2

\* the k-th replayed position is the (k+1)-th waypoint
ReplayedTo(k) ==
    /\ Abs(ReplayX(checkpoints[1][1], segs, k) - checkpoints[k + 1][1] * CostScale)
          <= ReplayTolerance
    /\ Abs(ReplayY(checkpoints[1][2], segs, k) - checkpoints[k + 1][2] * CostScale)
          <= ReplayTolerance

\* the converter has run
Converted == ppc = "converted"

\* C12: replaying the emitted commands from the first waypoint with heading
\* 0 reconstructs every waypoint of the chain, chains with the reverse
\* segment and the segments after it included
C12_ReplayReconstructsChain ==
    Converted => \A k \in DOMAIN segs : ReplayedTo(k)

Callers == {"interactive_mode", "execute_track", "FruitTrackRunner", "fruit_mover"}

\* command lists: a turn-and-move followed by a plain move; the second list
\* starts with a turn that execute_track splits
RouteQuarter == <<[rotation |-> 90, movement |-> 45], [rotation |-> 0, movement |-> 45]>>

RouteHalf == <<[rotation |-> 180, movement |-> 45], [rotation |-> 0, movement |-> 45]>>

\* the runs checked: every program on the first list, execute_track on both
Runs == (Callers \X {RouteQuarter}) \cup {<<"execute_track", RouteHalf>>}

\* single commands typed into interactive_mode: a right turn, a left turn,
\* a forward move
SingleCommands ==
    {<<[rotation |-> 90, movement |-> 0]>>, <<[rotation |-> -90, movement |-> 0]>>,
     <<[rotation |-> 0, movement |-> 45]>>}

\* on a single command the observer also follows the reference of the outer
\* call, the quality of the measurements and the polls of each loop
Traced == Len(route) = 1

\* move_control.main and run_track.main stop the motors in a finally clause;
\* run_with_fruits.main and fruit_mover.py have no handler
HandlesInterrupt(c) == c \in {"interactive_mode", "command_line_mode", "execute_track"}

\* `if not ...execute_command(...): break` in the route loop
BreaksOnFailure(c) == c \in {"execute_track", "FruitTrackRunner"}

Ppu(kind) == IF kind = "turn" THEN PulsesPerDegree ELSE PulsesPerCm

Scaled(kind, v) == 2 * Ppu(kind) * v

Tolerance(kind) ==
    IF kind = "turn"
    THEN (IF tight THEN ConfiguredRotationTolerance ELSE rotation_tolerance)
    ELSE (IF tight THEN ConfiguredDistanceTolerance ELSE distance_tolerance)

ReachTolerance(kind) == IF kind = "turn" THEN TurnReachTolerance ELSE MoveReachTolerance

StallThreshold(kind) == IF kind = "turn" THEN TurnStallThreshold ELSE MoveStallThreshold

\* iterations of the polling loop that fit into max_turn_time / max_move_time
MaxPolls(kind) == IF kind = "turn" THEN MaxTurnPolls ELSE MaxMovePolls

\* abs(target) < 0.1
NoOp(f) == 10 * Abs(f.target) < 2 * Ppu(f.kind)

\* int(round(abs(target) * pulses_per_unit))
TargetTicks(target) == RoundDiv(Abs(target), 2)

\* avg_ticks >= target_ticks - tolerance, on doubled values
Reached(kind, avg2, ticks) == avg2 >= 2 * (ticks - ReachTolerance(kind))

\* abs(avg_ticks - last_check_ticks) < threshold, on doubled values
Stalled(kind, avg2, last2) == Abs(avg2 - last2) < 2 * StallThreshold(kind)

\* abs(error) <= tolerance
WithinTolerance(kind, err) == Abs(err) <= Scaled(kind, Tolerance(kind))

\* correction_degrees = -error ; correction_cm = error
Correction(kind, err) == IF kind = "turn" THEN -err ELSE err

\* abs(correction) < 0.5
Tiny(kind, corr) == Abs(corr) < Ppu(kind)

NewFrame(kind, target) ==
    [kind |-> kind, target |-> target, ticks |-> 0, dir |-> 0, pc |-> "entry",
     last2 |-> 0, stall |-> 0, polls |-> 0, err |-> 0, attempt |-> 0, saved |-> TRUE]

Top == stack[Len(stack)]

SetTop(f) == [stack EXCEPT ![Len(stack)] = f]

Running == rpc \notin {"off", "done", "killed"}

\* a motion request was issued and the polling loop or the settle sleep runs
PrimitiveActive == stack # << >> /\ Top.pc \in {"poll", "stop"}

\* the pair get_encoder_position returns: m1 as read first, m2 as read now
ReadPair == [m1 |-> rd.left, m2 |-> latest_encoders.m2]

\* the observer's record of a read: whether the pair is one packet's, and
\* whether a pair taken as reference or as measurement is the robot's count
\* at that instant
ReadH(h) ==
    [h EXCEPT !.readOk = ReadPair \in rd.seen,
              !.clean = @ /\ (~Traced \/ Top.pc = "poll" \/
                              ReadPair = [m1 |-> plant.left_encoder,
                                          m2 |-> plant.right_encoder])]

\* a polling loop left by stall or timeout
Unclean(h) == [h EXCEPT !.clean = @ /\ ~Traced]

ReadDone(site) == stack # << >> /\ Top.pc = site /\ rd.phase = "mid"

\* (abs(rel_left) + abs(rel_right)) of get_relative_position, doubled average
Avg2 == Abs(ReadPair.m1 - start_left) + Abs(ReadPair.m2 - start_right)

\* error = target - actual, actual = final_ticks / pulses_per_unit * direction
Error(f, final2) == f.target - f.dir * final2

ReturnedH(h, f, val, why) ==
    IF Len(stack) = 1
    THEN [h EXCEPT !.turnState = IF f.kind = "turn" THEN "terminal" ELSE @,
                   !.exhausted = IF f.kind = "turn" /\ why = "exhausted" THEN idx ELSE @,
                   !.staleResult = IF @ = "pending" THEN val ELSE @,
                   !.outerRef = [m1 |-> 0, m2 |-> 0]]
    ELSE h

\* the innermost call returns val
ReturnWith(h, val, why) ==
    /\ stack' = SubSeq(stack, 1, Len(stack) - 1)
    /\ ret' = val
    /\ hist' = ReturnedH(h, Top, val, why)

\* a variant in which the while-else (timeout) exit goes past stop_motors()
LoopExitSkipsStop(reason) == IF reason = "timeout" THEN "measure" ELSE "stop"

\* where the polling loop leaves to, by break or by while-else: stop_motors()
LoopExitPc(reason) == "stop"

\* a variant that keeps stall_count when a poll shows progress
PollStepKeepsCount(f, avg2) ==
    IF Reached(f.kind, avg2, f.ticks)
    THEN [f EXCEPT !.pc = LoopExitPc("reached"), !.last2 = 0, !.stall = 0, !.polls = 0]
    ELSE IF Stalled(f.kind, avg2, f.last2)
         THEN IF f.stall + 1 > StallLimit
              THEN [f EXCEPT !.pc = LoopExitPc("stall"), !.last2 = 0, !.stall = 0, !.polls = 0]
              ELSE [f EXCEPT !.stall = @ + 1, !.last2 = avg2, !.polls = @ + 1]
         ELSE [f EXCEPT !.last2 = avg2, !.polls = @ + 1]

\* one iteration of the polling loop on the average read
PollStep(f, avg2) ==
    IF Reached(f.kind, avg2, f.ticks)
    THEN [f EXCEPT !.pc = LoopExitPc("reached"), !.last2 = 0, !.stall = 0, !.polls = 0]
    ELSE IF Stalled(f.kind, avg2, f.last2)
         THEN IF f.stall + 1 > StallLimit
              THEN [f EXCEPT !.pc = LoopExitPc("stall"), !.last2 = 0, !.stall = 0, !.polls = 0]
              ELSE [f EXCEPT !.stall = @ + 1, !.last2 = avg2, !.polls = @ + 1]
         ELSE [f EXCEPT !.stall = 0, !.last2 = avg2, !.polls = @ + 1]

\* the observer's account of how a polling loop was left
LeftH(h, reason) == IF Traced THEN [h EXCEPT !.loopExit = reason] ELSE h

\* the observer's account of a poll that read avg2: the run of polls whose
\* reading is within the threshold of the reading before (0 before the
\* first), whether every reading of the loop was 0, and how the loop ended
PolledH(h, f, avg2) ==
    IF ~Traced THEN h ELSE
    [h EXCEPT !.seen2 = avg2,
              !.quiet = IF Abs(avg2 - h.seen2) < 2 * StallThreshold(f.kind) THEN @ + 1 ELSE 0,
              !.idle = @ /\ avg2 = 0,
              !.loopExit = IF PollStep(f, avg2).pc = "poll" THEN "none"
                           ELSE IF avg2 >= 2 * (f.ticks - ReachTolerance(f.kind))
                                THEN "reached" ELSE "stall"]

\* the observer's account once the loop is over and the motors are stopped
LoopOverH(h) == [h EXCEPT !.seen2 = 0, !.quiet = 0, !.idle = TRUE, !.loopExit = "none"]

\* advanced.move_by_ticks as the robot takes it (VirtualRobot.move_by_ticks)
move_by_ticks(p, left_ticks, right_ticks, left_speed, right_speed) ==
    [p EXCEPT !.move_active = TRUE,
              !.move_target_left = left_ticks, !.move_target_right = right_ticks,
              !.move_start_left = p.left_encoder, !.move_start_right = p.right_encoder,
              !.move_speed_left = left_speed, !.move_speed_right = right_speed]

\* the robot's counts relative to a new origin (left0, right0)
Rebased(p, left0, right0) ==
    [p EXCEPT !.left_encoder = @ - left0, !.right_encoder = @ - right0,
              !.move_start_left = IF p.move_active THEN @ - left0 ELSE @,
              !.move_start_right = IF p.move_active THEN @ - right0 ELSE @]

\* advanced.stop_motors as the robot takes it (VirtualRobot.set_motor_pwm(0, 0))
stop_motors(p) ==
    [RestingPlant(p.left_encoder, p.right_encoder)
        EXCEPT !.x_cm = p.x_cm, !.y_cm = p.y_cm, !.heading_deg = p.heading_deg]

\* ---------------------------------------------- turn_to_angle / move_distance
othersP == <<caller, route, tight, motor_bias, idx, rpc, success, latest_encoders, dataFresh, telemLive>>

\* encoders.get('m1', 0): the first half of get_encoder_position
GetEncoderLeft ==
    /\ Running
    /\ stack # << >>
    /\ Top.pc \in {"reference", "poll", "measure", "remeasure"}
    /\ Top.pc = "poll" => Top.polls < MaxPolls(Top.kind)
    /\ rd.phase = "idle"
    /\ rd' = [phase |-> "mid", left |-> latest_encoders.m1, seen |-> {latest_encoders}]
    /\ UNCHANGED <<othersP, stack, ret, start_left, start_right,
                   enable_error_correction, plant, hist, planVars>>

\* the no-op test, target_ticks and direction
PrimitiveEntry ==
    /\ Running
    /\ stack # << >>
    /\ Top.pc = "entry"
    /\ IF NoOp(Top)
       THEN ReturnWith(hist, "ok", "noop")
       ELSE /\ stack' = SetTop([Top EXCEPT !.ticks = TargetTicks(Top.target),
                                           !.dir = IF Top.target > 0 THEN 1 ELSE -1,
                                           !.pc = "reference"])
            /\ UNCHANGED <<ret, hist>>
    /\ UNCHANGED <<othersP, start_left, start_right, enable_error_correction,
                   rd, plant, planVars>>

\* reset_encoder_reference().  The executor and the robot use counts only as
\* differences to a count of the same wheel, so the reference point is kept
\* at (0, 0) and every count held anywhere is rebased by the pair read.
ResetEncoderReference ==
    /\ Running
    /\ ReadDone("reference")
    /\ start_left' = 0
    /\ start_right' = 0
    /\ latest_encoders' = [m1 |-> latest_encoders.m1 - ReadPair.m1,
                           m2 |-> latest_encoders.m2 - ReadPair.m2]
    /\ plant' = Rebased(plant, ReadPair.m1, ReadPair.m2)
    /\ stack' = SetTop([Top EXCEPT !.pc = "request"])
    /\ rd' = IdleRead
    /\ hist' = [ReadH(hist) EXCEPT !.outerRef =
                   IF Len(stack) = 1 \/ ~Traced THEN [m1 |-> 0, m2 |-> 0]
                   ELSE [m1 |-> @.m1 - ReadPair.m1, m2 |-> @.m2 - ReadPair.m2]]
    /\ UNCHANGED <<caller, route, tight, motor_bias, idx, rpc, success, dataFresh, telemLive,
                   ret, enable_error_correction, planVars>>

\* move_by_ticks(...): the motion request; the speeds are kept as their signs
RequestMotion ==
    /\ Running
    /\ stack # << >>
    /\ Top.pc = "request"
    /\ LET side == IF Top.kind = "turn" THEN -1 ELSE 1
       IN plant' = move_by_ticks(plant, Top.dir * Top.ticks, side * Top.dir * Top.ticks,
                                 Top.dir, side * Top.dir)
    /\ stack' = SetTop([Top EXCEPT !.pc = "poll"])
    /\ hist' = [hist EXCEPT !.lastCmd = "move",
                            !.reqCmd = idx,
                            !.reqKind = stack[1].kind,
                            !.moved = IF stack[1].kind = "move" THEN @ \cup {idx} ELSE @,
                            !.staleReq = @ \/ hist.staleResult = "pending"]
    /\ UNCHANGED <<othersP, ret, start_left, start_right, enable_error_correction,
                   rd, planVars>>

\* one pass of `while time.time() - start_time < max_time:` and its else
PollEncoders ==
    /\ Running
    /\ stack # << >>
    /\ Top.pc = "poll"
    /\ IF Top.polls >= MaxPolls(Top.kind)
       THEN /\ stack' = SetTop([Top EXCEPT !.pc = LoopExitPc("timeout"), !.last2 = 0,
                                           !.stall = 0, !.polls = 0])
            /\ hist' = LeftH(Unclean(hist), "timeout")
            /\ UNCHANGED rd
       ELSE /\ rd.phase = "mid"
            /\ stack' = SetTop(PollStep(Top, Avg2))
            /\ rd' = IdleRead
            /\ hist' = PolledH(IF Reached(Top.kind, Avg2, Top.ticks)
                                   \/ PollStep(Top, Avg2).pc = "poll"
                                THEN ReadH(hist) ELSE Unclean(ReadH(hist)),
                                Top, Avg2)
    /\ UNCHANGED <<othersP, ret, start_left, start_right, enable_error_correction,
                   plant, planVars>>

\* stop_motors() after the loop
StopAfterLoop ==
    /\ Running
    /\ stack # << >>
    /\ Top.pc = "stop"
    /\ plant' = stop_motors(plant)
    /\ stack' = SetTop([Top EXCEPT !.pc = "measure"])
    /\ hist' = LoopOverH([hist EXCEPT !.lastCmd = "stop"])
    /\ UNCHANGED <<othersP, ret, start_left, start_right, enable_error_correction,
                   rd, planVars>>

\* the final measurement, the tolerance test and the correction switch
MeasureResult ==
    /\ Running
    /\ ReadDone("measure")
    /\ \E err \in {Error(Top, Avg2)} :
          IF WithinTolerance(Top.kind, err)
          THEN ReturnWith(ReadH(hist), "ok", "within")
          ELSE IF ~enable_error_correction
               THEN ReturnWith(ReadH(hist), "fail", "disabled")
               ELSE /\ stack' = SetTop([Top EXCEPT !.err = err, !.attempt = 0,
                                                   !.pc = "correct"])
                    /\ hist' = ReadH(hist)
                    /\ UNCHANGED ret
    /\ rd' = IdleRead
    /\ UNCHANGED <<othersP, start_left, start_right, enable_error_correction,
                   plant, planVars>>

\* a variant that leaves the correction switch as it is during the sub-call
FlagKept(saved) == saved

\* `self.enable_error_correction = False` before the corrective sub-call
FlagDuringCorrection(saved) == FALSE

\* head of `for attempt in range(max_correction_attempts):` up to the
\* recursive call with correction disabled
CorrectionAttempt ==
    /\ Running
    /\ stack # << >>
    /\ Top.pc = "correct"
    /\ \E corr \in {Correction(Top.kind, Top.err)} :
          IF Top.attempt >= max_correction_attempts
          THEN ReturnWith(hist, "fail", "exhausted") /\ UNCHANGED enable_error_correction
          ELSE IF Tiny(Top.kind, corr)
               THEN ReturnWith(hist, "ok", "converged") /\ UNCHANGED enable_error_correction
               ELSE /\ stack' = Append(SetTop([Top EXCEPT !.saved = enable_error_correction,
                                                          !.pc = "corrected"]),
                                       NewFrame(Top.kind, corr))
                    /\ enable_error_correction' = FlagDuringCorrection(enable_error_correction)
                    /\ UNCHANGED <<ret, hist>>
    /\ UNCHANGED <<othersP, start_left, start_right, rd, plant, planVars>>

\* after the recursive call: restore the flag, give up if it failed
CorrectionReturned ==
    /\ Running
    /\ stack # << >>
    /\ Top.pc = "corrected"
    /\ ret # "none"
    /\ enable_error_correction' = Top.saved
    /\ IF ret = "fail"
       THEN ReturnWith(hist, "fail", "correction failed")
       ELSE /\ stack' = SetTop([Top EXCEPT !.pc = "remeasure"])
            /\ ret' = "none"
            /\ UNCHANGED hist
    /\ UNCHANGED <<othersP, start_left, start_right, rd, plant, planVars>>

\* the measurement after a correction and the end of the loop body
MeasureAfterCorrection ==
    /\ Running
    /\ ReadDone("remeasure")
    /\ \E err \in {Error(Top, Avg2)} :
          IF WithinTolerance(Top.kind, err)
          THEN ReturnWith(ReadH(hist), "ok", "corrected")
          ELSE /\ stack' = SetTop([Top EXCEPT !.err = err, !.attempt = @ + 1,
                                              !.pc = "correct"])
               /\ hist' = ReadH(hist)
               /\ UNCHANGED ret
    /\ rd' = IdleRead
    /\ UNCHANGED <<othersP, start_left, start_right, enable_error_correction,
                   plant, planVars>>

\* ------------------------------------------------ route loop, execute_command
othersR == <<caller, route, tight, motor_bias, start_left, start_right, enable_error_correction,
             rd, latest_encoders, dataFresh, telemLive>>

\* a variant of the route loop that passes over a command
NextIndexSkipping(i) == i + 2

\* enumerate(self.track_data): the next command of the list
NextIndex(i) == i + 1

\* a variant of execute_command that moves whatever the turn returned
MoveRegardless(movement_cm, ok) == movement_cm # 0

\* `if movement_cm != 0 and success:`
MoveAfterTurn(movement_cm, ok) == movement_cm # 0 /\ ok

\* the route loop after a command returned ok
AfterCommand(ok) == IF BreaksOnFailure(caller) /\ ~ok THEN "cleanup" ELSE "next"

Call(kind, value) == Append(stack, NewFrame(kind, Scaled(kind, value)))

CommandDone(h) == [h EXCEPT !.doneCmd = @ + 1]

\* the head of the route loop; execute_track splits a turn beyond 135 degrees
NextCommand ==
    /\ rpc = "next"
    /\ IF idx >= Len(route)
       THEN /\ rpc' = "cleanup"
            /\ UNCHANGED <<idx, hist>>
       ELSE /\ idx' = NextIndex(idx)
            /\ rpc' = IF /\ caller = "execute_track"
                         /\ Abs(route[idx'].rotation) > SplitTurnThreshold
                      THEN "first_turn" ELSE "test"
            /\ hist' = [hist EXCEPT !.turnState = "none"]
    /\ success' = TRUE
    /\ UNCHANGED <<othersR, stack, ret, plant, planVars>>

\* execute_command: test_esp32_connection(), then wait_for_encoder_data()
TestConnection ==
    /\ rpc = "test"
    /\ IF dataFresh \/ telemLive
       THEN /\ rpc' = "rotation"
            /\ UNCHANGED <<success, hist>>
       ELSE /\ success' = FALSE
            /\ rpc' = AfterCommand(FALSE)
            /\ hist' = CommandDone(hist)
    /\ UNCHANGED <<othersR, idx, stack, ret, plant, planVars>>

\* execute_command step 1: the turn
Rotation ==
    /\ rpc = "rotation"
    /\ IF route[idx].rotation # 0
       THEN /\ stack' = Call("turn", route[idx].rotation)
            /\ hist' = [hist EXCEPT !.turnState = "active"]
       ELSE UNCHANGED <<stack, hist>>
    /\ rpc' = "movement"
    /\ UNCHANGED <<othersR, idx, success, ret, plant, planVars>>

\* execute_command step 2: the move, after the turn has returned
Movement ==
    /\ rpc = "movement"
    /\ stack = << >>
    /\ success' = (ret # "fail")
    /\ stack' = IF MoveAfterTurn(route[idx].movement, ret # "fail")
                THEN Call("move", route[idx].movement) ELSE stack
    /\ ret' = "none"
    /\ rpc' = "final_stop"
    /\ UNCHANGED <<othersR, idx, plant, hist, planVars>>

\* execute_command: the final stop_motors() and the return to the route loop
FinalStop ==
    /\ rpc = "final_stop"
    /\ stack = << >>
    /\ success' = (success /\ ret # "fail")
    /\ plant' = stop_motors(plant)
    /\ hist' = CommandDone([hist EXCEPT !.lastCmd = "stop"])
    /\ ret' = "none"
    /\ rpc' = AfterCommand(success /\ ret # "fail")
    /\ UNCHANGED <<othersR, idx, stack, planVars>>

\* execute_track, split branch: the first 90 degree turn
SplitFirst ==
    /\ rpc = "first_turn"
    /\ stack' = Call("turn", IF route[idx].rotation > 0 THEN SplitFirstTurn
                             ELSE -SplitFirstTurn)
    /\ hist' = [hist EXCEPT !.turnState = "active"]
    /\ rpc' = "second_turn"
    /\ UNCHANGED <<othersR, idx, success, ret, plant, planVars>>

\* split branch: break if the first turn failed, else the second turn
SplitSecond ==
    /\ rpc = "second_turn"
    /\ stack = << >>
    /\ IF ret = "fail"
       THEN /\ rpc' = "cleanup"
            /\ hist' = CommandDone(hist)
            /\ UNCHANGED stack
       ELSE /\ stack' = Call("turn", route[idx].rotation -
                                (IF route[idx].rotation > 0 THEN SplitFirstTurn
                                 ELSE -SplitFirstTurn))
            /\ hist' = [hist EXCEPT !.turnState = "active"]
            /\ rpc' = "split_move"
    /\ ret' = "none"
    /\ UNCHANGED <<othersR, idx, success, plant, planVars>>

\* split branch: break if the second turn failed, else move if measure > 0
SplitMove ==
    /\ rpc = "split_move"
    /\ stack = << >>
    /\ IF ret = "fail"
       THEN /\ rpc' = "cleanup"
            /\ hist' = CommandDone(hist)
            /\ UNCHANGED stack
       ELSE IF route[idx].movement > 0
            THEN /\ stack' = Call("move", route[idx].movement)
                 /\ rpc' = "split_done"
                 /\ UNCHANGED hist
            ELSE /\ rpc' = "next"
                 /\ hist' = CommandDone(hist)
                 /\ UNCHANGED stack
    /\ ret' = "none"
    /\ UNCHANGED <<othersR, idx, success, plant, planVars>>

\* split branch: break if the move failed, else the next segment
SplitDone ==
    /\ rpc = "split_done"
    /\ stack = << >>
    /\ rpc' = IF ret = "fail" THEN "cleanup" ELSE "next"
    /\ hist' = CommandDone(hist)
    /\ ret' = "none"
    /\ UNCHANGED <<othersR, idx, success, stack, plant, planVars>>

\* the process ends: its calls and its variables are gone
Exit ==
    /\ stack' = << >>
    /\ ret' = "none"
    /\ rd' = IdleRead
    /\ idx' = 0
    /\ success' = TRUE
    /\ start_left' = 0
    /\ start_right' = 0
    /\ latest_encoders' = [m1 |-> 0, m2 |-> 0]
    /\ dataFresh' = TRUE

\* advanced.cleanup() at the end of the program: stop_motors()
Cleanup ==
    /\ rpc = "cleanup"
    /\ plant' = stop_motors(plant)
    /\ hist' = [hist EXCEPT !.lastCmd = "stop"]
    /\ rpc' = "done"
    /\ Exit
    /\ UNCHANGED <<caller, route, tight, motor_bias, enable_error_correction, telemLive, planVars>>

\* KeyboardInterrupt in the main thread: the calls unwind; a program with a
\* handler runs cleanup(), a program without one ends
OperatorInterrupt ==
    /\ Running
    /\ rpc # "cleanup"
    /\ hist.intr = "none"
    /\ Exit
    /\ \E how \in {IF PrimitiveActive THEN "active" ELSE "idle"} :
          IF HandlesInterrupt(caller)
          THEN /\ plant' = stop_motors(plant)
               /\ rpc' = "done"
               /\ hist' = LoopOverH([hist EXCEPT !.intr = how, !.lastCmd = "stop"])
          ELSE /\ rpc' = "killed"
               /\ hist' = LoopOverH([hist EXCEPT !.intr = how])
               /\ UNCHANGED plant
    /\ UNCHANGED <<caller, route, tight, motor_bias, enable_error_correction, telemLive, planVars>>

\* ------------------------------------------------- robot and telemetry thread
othersE == <<caller, route, tight, motor_bias, idx, rpc, success, stack, ret, start_left,
             start_right, enable_error_correction>>

\* the pose is followed in the simulator's own path test only
PoseFollowed == caller = "execute_path"

\* the pose part of _update_physics for wheel advances of left_pulses and
\* right_pulses: the position moves by the mean advance along the heading
\* it had (0 is up, the direction of decreasing y), the heading grows by
\* (right - left) / wheelbase and is reduced modulo 360
MovedPose(p, left_pulses, right_pulses) ==
    LET heading == RoundDiv(p.heading_deg, 2 * PulsesPerDegree)
    IN [p EXCEPT !.x_cm = @ + (left_pulses + right_pulses) * SinDeg(heading),
                 !.y_cm = @ - (left_pulses + right_pulses) * CosDeg(heading),
                 !.heading_deg = (@ + right_pulses - left_pulses) % (720 * PulsesPerDegree)]

\* VirtualRobot._update_physics: one step of the wheels under a move-by-ticks
UpdatePhysics ==
    /\ Running
    /\ plant.move_active
    /\ plant' =
          IF /\ Abs(plant.left_encoder - plant.move_start_left) >= Abs(plant.move_target_left)
             /\ Abs(plant.right_encoder - plant.move_start_right) >= Abs(plant.move_target_right)
          THEN stop_motors(plant)
          ELSE LET left_pulses == plant.move_speed_left * (PlantQuantum - motor_bias)
                   right_pulses == plant.move_speed_right * PlantQuantum
                   posed == IF PoseFollowed THEN MovedPose(plant, left_pulses, right_pulses)
                            ELSE plant
               IN [posed EXCEPT !.left_encoder = @ + left_pulses,
                                !.right_encoder = @ + right_pulses]
    /\ UNCHANGED <<othersE, rd, latest_encoders, dataFresh, telemLive, hist, planVars>>

\* telem_loop, encoder branch: latest_encoders.update(...); last_enc_time = now
TelemPacket ==
    /\ Running
    /\ telemLive
    /\ \E pkt \in {[m1 |-> plant.left_encoder, m2 |-> plant.right_encoder]} :
          /\ latest_encoders' = pkt
          /\ rd' = IF rd.phase = "mid" THEN [rd EXCEPT !.seen = @ \cup {pkt}] ELSE rd
    /\ dataFresh' = TRUE
    /\ UNCHANGED <<othersE, telemLive, plant, hist, planVars>>

\* encoder packets stop arriving
TelemFreeze ==
    /\ Running
    /\ telemLive
    /\ telemLive' = FALSE
    /\ hist' = [hist EXCEPT !.staleResult =
                   IF PrimitiveActive /\ @ = "none" THEN "pending" ELSE @]
    /\ UNCHANGED <<othersE, rd, latest_encoders, dataFresh, plant, planVars>>

\* ten seconds pass without a packet: is_encoder_data_available() turns false;
\* only test_esp32_connection() looks at the age, so the event is taken there
TelemAgeOut ==
    /\ rpc = "test"
    /\ ~telemLive
    /\ dataFresh
    /\ dataFresh' = FALSE
    /\ UNCHANGED <<othersE, rd, latest_encoders, telemLive, plant, hist, planVars>>

InitExecutor ==
    /\ PlannerIdle
    /\ \E run \in Runs : caller = run[1] /\ route = run[2]
    /\ tight \in BOOLEAN
    /\ motor_bias = 0
    /\ idx = 0
    /\ rpc = "next"
    /\ success = TRUE
    /\ stack = << >>
    /\ ret = "none"
    /\ start_left = 0
    /\ start_right = 0
    /\ enable_error_correction = TRUE
    /\ rd = IdleRead
    /\ latest_encoders = [m1 |-> 0, m2 |-> 0]
    /\ dataFresh = TRUE
    /\ telemLive = TRUE
    /\ plant = RestingPlant(0, 0)
    /\ hist = NoHistory

NextExecutor ==
    \/ NextCommand \/ TestConnection \/ Rotation \/ Movement \/ FinalStop
    \/ SplitFirst \/ SplitSecond \/ SplitMove \/ SplitDone \/ Cleanup
    \/ OperatorInterrupt
    \/ GetEncoderLeft \/ PrimitiveEntry \/ ResetEncoderReference \/ RequestMotion
    \/ PollEncoders \/ StopAfterLoop \/ MeasureResult \/ CorrectionAttempt
    \/ CorrectionReturned \/ MeasureAfterCorrection
    \/ UpdatePhysics \/ TelemPacket \/ TelemFreeze \/ TelemAgeOut

SpecExecutor == InitExecutor /\ [][NextExecutor]_vars

\* interactive_mode after `tolerance 5,2`, one command, on a robot whose left
\* wheel may be slower than the right one
InitCorrection ==
    /\ PlannerIdle
    /\ caller = "interactive_mode"
    /\ route \in SingleCommands
    /\ tight = TRUE
    /\ motor_bias \in {0, MotorBias}
    /\ idx = 0
    /\ rpc = "next"
    /\ success = TRUE
    /\ stack = << >>
    /\ ret = "none"
    /\ start_left = 0
    /\ start_right = 0
    /\ enable_error_correction = TRUE
    /\ rd = IdleRead
    /\ latest_encoders = [m1 |-> 0, m2 |-> 0]
    /\ dataFresh = TRUE
    /\ telemLive = TRUE
    /\ plant = RestingPlant(0, 0)
    /\ hist = NoHistory

NextCorrection ==
    \/ NextCommand \/ TestConnection \/ Rotation \/ Movement \/ FinalStop
    \/ Cleanup \/ OperatorInterrupt
    \/ GetEncoderLeft \/ PrimitiveEntry \/ ResetEncoderReference \/ RequestMotion
    \/ PollEncoders \/ StopAfterLoop \/ MeasureResult \/ CorrectionAttempt
    \/ CorrectionReturned \/ MeasureAfterCorrection
    \/ UpdatePhysics \/ TelemPacket \/ TelemFreeze \/ TelemAgeOut

SpecCorrection == InitCorrection /\ [][NextCorrection]_vars

\* ------------------------------------------------ one command from the shell
\* `python move_control.py <rotation_degrees> <movement_cm>`
ShellCommands ==
    {<<[rotation |-> 90, movement |-> 0]>>, <<[rotation |-> 0, movement |-> 45]>>}

\* command_line_mode: one command under the default tolerances, on a robot
\* whose left wheel may be slower than the right one
InitShell ==
    /\ PlannerIdle
    /\ caller = "command_line_mode"
    /\ route \in ShellCommands
    /\ tight = FALSE
    /\ motor_bias \in {0, MotorBias}
    /\ idx = 0
    /\ rpc = "next"
    /\ success = TRUE
    /\ stack = << >>
    /\ ret = "none"
    /\ start_left = 0
    /\ start_right = 0
    /\ enable_error_correction = TRUE
    /\ rd = IdleRead
    /\ latest_encoders = [m1 |-> 0, m2 |-> 0]
    /\ dataFresh = TRUE
    /\ telemLive = TRUE
    /\ plant = RestingPlant(0, 0)
    /\ hist = NoHistory

\* under the default tolerances no primitive goes into correction
NextShell ==
    \/ NextCommand \/ TestConnection \/ Rotation \/ Movement \/ FinalStop
    \/ Cleanup \/ OperatorInterrupt
    \/ GetEncoderLeft \/ PrimitiveEntry \/ ResetEncoderReference \/ RequestMotion
    \/ PollEncoders \/ StopAfterLoop \/ MeasureResult
    \/ UpdatePhysics \/ TelemPacket \/ TelemFreeze \/ TelemAgeOut

SpecShell == InitShell /\ [][NextShell]_vars

\* ------------------------------------------------ the simulator's path test
othersS == <<caller, route, tight, motor_bias, success, stack, ret, start_left, start_right,
             enable_error_correction, rd, latest_encoders, dataFresh, telemLive>>

\* the command lists handed to execute_path
SimRoutes ==
    {<<[rotation |-> 0, movement |-> -45]>>,
     <<[rotation |-> 0, movement |-> 45]>>,
     <<[rotation |-> 90, movement |-> 45]>>,
     <<[rotation |-> -90, movement |-> 45], [rotation |-> 0, movement |-> -45]>>,
     <<[rotation |-> 0, movement |-> 45], [rotation |-> 0, movement |-> -45]>>}

\* test_path_execution.main: VirtualRobot() with its default motor factors
\* (the left wheel the weaker one), reset to the start pose, then execute_path
InitSimulator ==
    /\ PlannerIdle
    /\ caller = "execute_path"
    /\ route \in SimRoutes
    /\ tight = FALSE
    /\ motor_bias = MotorBias
    /\ idx = 1
    /\ rpc = "sim_turn"
    /\ success = TRUE
    /\ stack = << >>
    /\ ret = "none"
    /\ start_left = 0
    /\ start_right = 0
    /\ enable_error_correction = TRUE
    /\ rd = IdleRead
    /\ latest_encoders = [m1 |-> 0, m2 |-> 0]
    /\ dataFresh = TRUE
    /\ telemLive = TRUE
    /\ plant = RestingPlant(0, 0)
    /\ hist = NoHistory

\* what the pose is called in the record of the robot
PoseOf(p) == [x_cm |-> p.x_cm, y_cm |-> p.y_cm, heading_deg |-> p.heading_deg]

\* execute_path, "# Turn": if abs(turn_deg) > 0.5, the request for
\* int(abs(ppd * turn_deg)) ticks, clockwise for a positive turn
SimTurn ==
    /\ caller = "execute_path"
    /\ rpc = "sim_turn"
    /\ LET turn_deg == route[idx].rotation
           turn_ticks == Abs(PulsesPerDegree * turn_deg)
       IN IF turn_deg # 0
          THEN /\ plant' = IF turn_deg > 0
                           THEN move_by_ticks(plant, turn_ticks, -turn_ticks, 1, -1)
                           ELSE move_by_ticks(plant, -turn_ticks, turn_ticks, -1, 1)
               /\ rpc' = "sim_turn_sleep"
          ELSE /\ rpc' = "sim_move"
               /\ UNCHANGED plant
    /\ hist' = [hist EXCEPT !.cmdPose = PoseOf(plant)]
    /\ UNCHANGED <<othersS, idx, planVars>>

\* the sleep after the turn request has ended: advanced.stop_motors()
SimTurnStop ==
    /\ caller = "execute_path"
    /\ rpc = "sim_turn_sleep"
    /\ plant' = stop_motors(plant)
    /\ rpc' = "sim_move"
    /\ UNCHANGED <<othersS, idx, hist, planVars>>

\* execute_path, "# Move forward": if distance_cm > 0.5, the request for
\* int(ppc * distance_cm) ticks forward; otherwise on to the next command
SimMove ==
    /\ caller = "execute_path"
    /\ rpc = "sim_move"
    /\ LET distance_cm == route[idx].movement
           move_ticks == PulsesPerCm * distance_cm
       IN IF distance_cm > 0
          THEN /\ plant' = move_by_ticks(plant, move_ticks, move_ticks, 1, 1)
               /\ rpc' = "sim_move_sleep"
               /\ UNCHANGED idx
          ELSE /\ rpc' = IF idx < Len(route) THEN "sim_turn" ELSE "done"
               /\ idx' = idx + 1
               /\ UNCHANGED plant
    /\ UNCHANGED <<othersS, hist, planVars>>

\* the sleep after the move request has ended: advanced.stop_motors(), then
\* the next command
SimMoveStop ==
    /\ caller = "execute_path"
    /\ rpc = "sim_move_sleep"
    /\ plant' = stop_motors(plant)
    /\ rpc' = IF idx < Len(route) THEN "sim_turn" ELSE "done"
    /\ idx' = idx + 1
    /\ UNCHANGED <<othersS, hist, planVars>>

NextSimulator == SimTurn \/ SimTurnStop \/ SimMove \/ SimMoveStop \/ UpdatePhysics

SpecSimulator == InitSimulator /\ [][NextSimulator]_vars

\* the steps of the main thread; it is never suspended for ever (every sleep
\* returns and the clock that bounds the polling loops advances)
MainThread ==
    \/ NextCommand \/ TestConnection \/ Rotation \/ Movement \/ FinalStop
    \/ Cleanup
    \/ GetEncoderLeft \/ PrimitiveEntry \/ ResetEncoderReference \/ RequestMotion
    \/ PollEncoders \/ StopAfterLoop \/ MeasureResult \/ CorrectionAttempt
    \/ CorrectionReturned \/ MeasureAfterCorrection

SpecCorrectionFair == SpecCorrection /\ WF_vars(MainThread)
\* ------------------------------------------------------- executor claims

\* C5: when a turn_to_angle or move_distance call has returned, the last
\* motor command sent is not a motion request and the robot holds no active
\* move-by-ticks: a stop followed the last motion request on every exit path.
C5_StopBeforeReturn ==
    ret # "none" => (hist.lastCmd # "move" /\ ~plant.move_active)

\* C5 witness: a call returned failure after exhausting its corrections
C5_Witness ==
    /\ ret = "fail"
    /\ stack = << >>
    /\ hist.exhausted = idx
    /\ hist.lastCmd = "stop"

\* C6: after an operator interrupt that arrived while a primitive was active,
\* the last motor command sent is a stop.
C6_InterruptStopsMotors ==
    hist.intr = "active" => hist.lastCmd = "stop"

\* C7: the (left, right) pair returned by get_encoder_position equals the
\* snapshot as one telemetry packet left it at some instant of the read.
C7_PairFromOnePacket == hist.readOk

\* C8: primitives run only for the command that follows the last finished
\* one, a motion request belongs to that command, and the move of a command
\* with a turn is requested only after the turn has reached a terminal state.
C8_CommandsInOrder ==
    /\ stack # << >> => idx = hist.doneCmd + 1
    /\ hist.lastCmd = "move" => hist.reqCmd = hist.doneCmd + 1
    /\ (hist.lastCmd = "move" /\ hist.reqKind = "move" /\ route[hist.reqCmd].rotation # 0)
          => hist.turnState = "terminal"

\* C8 witness: the move of a command with a turn has been requested
C8_Witness ==
    /\ hist.lastCmd = "move"
    /\ hist.reqKind = "move"
    /\ route[hist.reqCmd].rotation # 0
    /\ hist.turnState = "terminal"
    /\ stack # << >>

C10_StaleTelemetryStops ==
    /\ ~hist.staleReq
    /\ hist.staleResult # "ok"

\* the rotation (doubled ticks, clockwise positive) the robot has really
\* made since the reference of the outer call
TotalTurn2 ==
    (plant.left_encoder - hist.outerRef.m1) - (plant.right_encoder - hist.outerRef.m2)

\* the outermost call returns in this step (it is not unwound by an interrupt)
OuterReturns == Len(stack) = 1 /\ stack' = << >> /\ ret' # "none"

\* C11: on a robot with a wheel bias, with every measurement current and
\* every polling loop ended by reaching its target, a turn that went into
\* correction returns success with the rotation made since the call began
\* within rotation_tolerance of the target.
C11_BiasedTurnConverges ==
    [][(/\ OuterReturns
        /\ Top.kind = "turn"
        /\ Top.pc \in {"correct", "corrected", "remeasure"}
        /\ motor_bias # 0
        /\ hist'.clean)
        => (/\ ret' = "ok"
            /\ Abs(Top.target - TotalTurn2) <= Scaled("turn", Tolerance("turn")))]_vars

\* the bounds that hold while calls are active
BoundedCalls ==
    /\ Len(stack) <= 2
    /\ Len(stack) = 2 => (~enable_error_correction /\ stack[1].pc = "corrected"
                             /\ stack[1].attempt < max_correction_attempts)
    /\ \A k \in DOMAIN stack :
          /\ stack[k].attempt <= max_correction_attempts
          /\ stack[k].polls <= MaxPolls(stack[k].kind)
          /\ stack[k].stall <= StallLimit

\* C17: a corrective sub-call runs with correction disabled and never has a
\* sub-call of its own, a call has at most max_correction_attempts sub-calls,
\* every polling loop stays within its time limit, and every call returns.
C17_EveryCallReturns ==
    /\ []BoundedCalls
    /\ (stack # << >>) ~> (stack = << >>)

\* C17 witness: the last permitted corrective sub-call polls until its time
\* limit
C17_Witness ==
    /\ Len(stack) = 2
    /\ stack[1].attempt = max_correction_attempts - 1
    /\ Top.pc = "poll"
    /\ Top.polls = MaxPolls(Top.kind)

\* C18: when the motion request is about to be issued, the encoder reference
\* is the pair the snapshot holds.
C18_ReferenceIsPairAtRequest ==
    (stack # << >> /\ Top.pc = "request")
        => latest_encoders = [m1 |-> start_left, m2 |-> start_right]

\* the signed amount (doubled ticks) the pair just read lies from the
\* reference of the outer call: rotation clockwise, or distance forward
SinceOuterReference(kind) ==
    IF kind = "turn"
    THEN (ReadPair.m1 - hist.outerRef.m1) - (ReadPair.m2 - hist.outerRef.m2)
    ELSE (ReadPair.m1 - hist.outerRef.m1) + (ReadPair.m2 - hist.outerRef.m2)

\* C19: the error the outer call computes after a corrective sub-call is its
\* target minus the signed amount measured from its own reference: that is
\* the error it carries into the next attempt, or the one it accepts.
C19_RemeasuresFromOwnReference ==
    [][(/\ stack # << >>
        /\ Top.pc = "remeasure"
        /\ rd.phase = "mid"
        /\ \/ ret' = "ok"
           \/ /\ Len(stack') = Len(stack)
              /\ stack'[Len(stack)].pc = "correct")
        => LET e == Top.target - SinceOuterReference(Top.kind)
           IN IF ret' = "ok" THEN WithinTolerance(Top.kind, e)
              ELSE stack'[Len(stack)].err = e]_vars

Sign(x) == IF x > 0 THEN 1 ELSE IF x < 0 THEN -1 ELSE 0

\* C20: a corrective sub-call is given a target of the sign of the measured
\* error (error = target - actual): onward after an undershoot, back after
\* an overshoot.
C20_CorrectionReducesError ==
    [][(stack # << >> /\ Len(stack') = Len(stack) + 1)
        => Sign(stack'[Len(stack')].target) = Sign(Top.err)]_vars

\* the chain as the router and the tail left it: its last waypoint is the
\* end point
RoutedChain ==
    AppendDistinct(AppendDistinct(<<start_xy>>, order), Tail(TailPoly(cur, end_xy, obstacles)))

\* the extended phase has appended a reverse waypoint behind the end point
ReverseAppended ==
    /\ enable_corner_recalibration /\ final_dest_xy # NoDest
    /\ Len(ReverseStep(RoutedChain, obstacles).chain) > Len(RoutedChain)

\* rounding the reverse waypoint to the lattice moves it by at most half a
\* step in each coordinate
LatticeSlack == CostScale

\* C15: when a reverse waypoint was appended, the command of the segment from
\* the end point to it, and only that one, is (turn 0, distance minus the
\* reverse distance), and every other command has a non-negative distance;
\* when none was appended, no command is a reverse
C15_OnlyReverseSegmentIsNegative ==
    Converted =>
        LET n == Len(RoutedChain)
        IN IF ReverseAppended
           THEN /\ segs[n].turn = 0
                /\ Abs(segs[n].dist + ReverseDistance * Scale * CostScale) <= LatticeSlack
                /\ \A k \in DOMAIN segs : k # n => segs[k].dist >= 0
           ELSE /\ reverse_checkpoint_idx = 0
                /\ \A k \in DOMAIN segs : segs[k].dist >= 0

\* ------------------------------------------------------- simulator claims
\* execute_path has just finished a reverse command (0, -d)
ReverseCommandDone ==
    /\ caller = "execute_path"
    /\ rpc \in {"sim_turn", "done"}
    /\ idx >= 2
    /\ route[idx - 1].rotation = 0
    /\ route[idx - 1].movement < 0

\* C16: executing a reverse command (0, -d) against the simulated robot
\* moves the pose backward by d along the heading the command began with
\* and leaves the heading unchanged
C16_ReverseMovesPoseBackward ==
    ReverseCommandDone =>
        LET d == -route[idx - 1].movement
            heading == RoundDiv(hist.cmdPose.heading_deg, 2 * PulsesPerDegree)
        IN /\ plant.heading_deg = hist.cmdPose.heading_deg
           /\ plant.x_cm = hist.cmdPose.x_cm - 2 * d * PulsesPerCm * SinDeg(heading)
           /\ plant.y_cm = hist.cmdPose.y_cm + 2 * d * PulsesPerCm * CosDeg(heading)

\* ------------------------------------------------------- polling loop claims
InLoop == stack # << >> /\ Top.pc = "poll"

\* C21: a polling loop is left for stall only at a poll that ends a run of
\* more than the stall limit of consecutive polls whose reading changed by
\* less than the threshold; a poll that shows progress leaves the counter at
\* zero; a loop whose polls have all read no progress does not go on beyond
\* that window and is never left by the timeout: it is left by the stall
\* abort (at its first poll as reached when the target lies within the
\* reach tolerance).
C21_StallAbortAfterQuietWindow ==
    Traced =>
    /\ hist.loopExit = "stall" => hist.quiet > StallLimit
    /\ (InLoop /\ hist.quiet = 0) => Top.stall = 0
    /\ InLoop => Top.stall = hist.quiet
    /\ (InLoop /\ hist.idle) => (Top.polls <= StallLimit /\ Top.polls < MaxPolls(Top.kind))
    /\ hist.loopExit = "timeout" => ~hist.idle
    /\ (stack # << >> /\ hist.idle /\ hist.loopExit \notin {"none", "stall"}) =>
           (hist.loopExit = "reached" /\ Top.ticks <= ReachTolerance(Top.kind))

\* C21 witness: a turn whose polls read no progress at all was left by the
\* stall abort
C21_Witness ==
    /\ hist.loopExit = "stall"
    /\ hist.idle
    /\ hist.quiet = StallLimit + 1
    /\ Top.kind = "turn"
\* ------------------------------------------------------- grid search claims
Searched == ppc \in {"searched", "smoothed"}

\* the occupancy grid of the obstacles
Occupancy == [c \in Cells |-> Blocked(c, obstacles)]

\* the cell of a point of a grid path
CellOf(pt) == <<pt[1] \div Step, pt[2] \div Step>>

\* C22: in a path returned by _astar every point is the centre of a cell
\* that is in bounds and unblocked, consecutive cells are 8-neighbours, and
\* for a diagonal step the two cells orthogonally adjacent to both are
\* unblocked.
C22_PathStepsArePermitted ==
    (Searched /\ poly # NoPath) =>
        /\ \A k \in DOMAIN poly :
              /\ grid_to_pt(CellOf(poly[k])) = poly[k]
              /\ InBounds(CellOf(poly[k]))
              /\ ~Occupancy[CellOf(poly[k])]
        /\ \A k \in 1 .. Len(poly) - 1 :
              LET a == CellOf(poly[k])
                  b == CellOf(poly[k + 1])
              IN /\ b \in Neighbors8(a)
                 /\ (a[1] # b[1] /\ a[2] # b[2]) =>
                       (~Occupancy[<<b[1], a[2]>>] /\ ~Occupancy[<<a[1], b[2]>>])

\* C22 witness: a returned path with a diagonal step next to a blocked cell
C22_Witness ==
    /\ Searched
    /\ poly # NoPath
    /\ \E k \in 1 .. Len(poly) - 1 :
          LET a == CellOf(poly[k])
              b == CellOf(poly[k + 1])
          IN /\ a[1] # b[1] /\ a[2] # b[2]
             /\ \E c \in (Neighbors8(a) \cup Neighbors8(b)) \cap Cells : Occupancy[c]

\* the cells the end points of the call map to
StartCell == pt_to_grid(start_xy)

GoalCell == pt_to_grid(end_xy)

\* both cells lie in the grid and are free
EndsFree ==
    /\ InBounds(StartCell) /\ InBounds(GoalCell)
    /\ ~Occupancy[StartCell] /\ ~Occupancy[GoalCell]

\* C23: when the cell of the start or of the goal point lies outside the
\* grid or is blocked, _astar returns no path; a path it returns begins at
\* the centre of the start point's own cell and ends at the centre of the
\* goal point's own cell.
C23_BlockedEndsAreInfeasible ==
    Searched =>
        /\ ~EndsFree => poly = NoPath
        /\ poly # NoPath =>
              (poly[1] = grid_to_pt(StartCell) /\ poly[Len(poly)] = grid_to_pt(GoalCell))

\* C23 witness: the start cell is blocked, no path was returned, and a free
\* cell next to the start cell has a permitted route to the goal cell
C23_Witness ==
    /\ Searched
    /\ poly = NoPath
    /\ InBounds(StartCell) /\ InBounds(GoalCell)
    /\ Occupancy[StartCell] /\ ~Occupancy[GoalCell]
    /\ \E nb \in Neighbors8(StartCell) \cap Cells :
          ~Occupancy[nb] /\ GoalCell \in ReachableFrom({nb}, {nb}, Occupancy)

\* C24: for in-bounds unblocked start and goal cells the search ends with a
\* path exactly when the goal cell can be reached from the start cell by
\* permitted moves, and with no path otherwise.
C24_PathIffReachable ==
    (Searched /\ EndsFree) =>
        (poly # NoPath <=> GoalCell \in ReachableFrom({StartCell}, {StartCell}, Occupancy))

\* C24 witness: free start and goal cells without a permitted route between
\* them, and the search ended without a path
C24_Witness ==
    /\ Searched
    /\ EndsFree
    /\ poly = NoPath
    /\ GoalCell \notin ReachableFrom({StartCell}, {StartCell}, Occupancy)

\* math.hypot between two points, fixed-point, CostScale units per cm
EuclidCm(a, b) == ISqrt((Dist2(a, b) * CostScale * CostScale) \div (Scale * Scale))

\* C25: on an obstacle-free grid the length of the path _astar returns
\* between two points differs from their Euclidean distance by at most one
\* grid step.
C25_LengthWithinOneGridStep ==
    (Searched /\ obstacles = {} /\ poly # NoPath) =>
        Abs(PolylineLength(poly) - EuclidCm(start_xy, end_xy)) <= GRID_STEP_CM * CostScale

\* the path compressor has run
Smoothed == ppc = "smoothed"

\* C26: every segment of the compressed polyline keeps the clearance of
\* every obstacle, segments between adjacent points of the grid path
\* included, and the polyline has no more waypoints than the grid path.
C26_CompressedKeepsClearance ==
    Smoothed =>
        /\ \A k \in 1 .. Len(checkpoints) - 1 :
              SegmentIsClear(checkpoints[k], checkpoints[k + 1], obstacles)
        /\ Len(checkpoints) <= Len(poly)

\* ------------------------------------------------------- extended phase claims
Extended == ppc \in {"extended", "converted"}

\* the end point, the waypoint before it, and the reverse point computed
\* from them
EndPoint == RoutedChain[Len(RoutedChain)]

BeforeEnd == RoutedChain[Len(RoutedChain) - 1]

\* the waypoints the reverse step has appended to the routed chain
ReverseWaypoints ==
    SubSeq(ReverseStep(RoutedChain, obstacles).chain, Len(RoutedChain) + 1,
           Len(ReverseStep(RoutedChain, obstacles).chain))

\* wp lies behind e on the line through prev and e, within one lattice step
BehindOnLine(prev, e, wp) ==
    LET dx == e[1] - prev[1]
        dy == e[2] - prev[2]
        cross == dx * (wp[2] - e[2]) - dy * (wp[1] - e[1])
        dot == dx * (wp[1] - e[1]) + dy * (wp[2] - e[2])
    IN dot < 0 /\ cross * cross <= dx * dx + dy * dy

\* C27: when the extended phase has marked a reverse, the straight segment
\* from the end point to the reverse point keeps every clearance, and the
\* reverse added exactly one waypoint, which lies behind the end point on
\* the line of the approach.
C27_ReverseIsOneSafeWaypoint ==
    (Extended /\ reverse_checkpoint_idx # 0) =>
        /\ SegmentIsClear(EndPoint, ReversePoint(BeforeEnd, EndPoint), obstacles)
        /\ Len(ReverseWaypoints) = 1
        /\ BehindOnLine(BeforeEnd, EndPoint, ReverseWaypoints[1])

\* ------------------------------------------------ correction switch claims
\* the value enable_error_correction had when the call of frame f began
FlagAtEntry(f) == IF f.pc = "corrected" THEN f.saved ELSE enable_error_correction

\* C28: whenever a call of turn_to_angle or move_distance ends, by a return
\* or by an operator interrupt unwinding it, enable_error_correction has the
\* value it had when that call began.
C28_FlagRestoredOnEveryExit ==
    [][\A i \in 1..Len(stack) :
          i > Len(stack') => enable_error_correction' = FlagAtEntry(stack[i])]_vars

\* ------------------------------------------------------ turn sign claims
\* execute_path has requested the turn of its current command and the
\* simulated wheels have moved under it; the move has not been requested yet
TurnUnderWay ==
    /\ caller = "execute_path"
    /\ rpc \in {"sim_turn_sleep", "sim_move"}
    /\ idx <= Len(route)
    /\ route[idx].rotation # 0
    /\ plant.left_encoder # plant.move_start_left

\* the change of the simulated heading since the command began, in heading
\* units, taken in (-180, 180] degrees: positive is from up toward right
HeadingChange ==
    ((plant.heading_deg - hist.cmdPose.heading_deg + 360 * PulsesPerDegree - 1)
        % (720 * PulsesPerDegree)) - (360 * PulsesPerDegree - 1)

\* C29: under the request made for a command with a positive turn the
\* simulated heading increases (from up toward right), and under the request
\* made for a negative turn it decreases.
C29_PositiveTurnIncreasesHeading ==
    TurnUnderWay =>
        /\ route[idx].rotation > 0 => HeadingChange > 0
        /\ route[idx].rotation < 0 => HeadingChange < 0

\* ------------------------------------------------------ waypoint chain claims
\* C30: the waypoint chain, as routed, as extended and as handed to the
\* converter, has no two equal consecutive waypoints.
C30_NoEqualConsecutiveWaypoints ==
    \A i \in 1..(Len(checkpoints) - 1) : checkpoints[i] # checkpoints[i + 1]

\* the reverse polyline ended on the waypoint the chain already ended with,
\* the chain went on to further waypoints and was converted
C30_Witness ==
    /\ Converted
    /\ reverse_checkpoint_idx # 0
    /\ PlanSegmentWithClearance(EndPoint, ReversePoint(BeforeEnd, EndPoint), obstacles)
           = <<EndPoint, EndPoint>>
    /\ Len(checkpoints) > Len(RoutedChain)
    /\ Len(segs) = Len(checkpoints) - 1
====
